---- MODULE Spec2Model ----
(***************************************************************************)
(* Strawberry: the collection filter (collectionfilter.cpp) and the SQL    *)
(* query builder (collectionquery.cpp), and the Wikipedia artist biography *)
(* provider (wikipediaartistbio.cpp).                                      *)
(*                                                                         *)
(* A QString is a sequence of one-character strings, so that splitting,    *)
(* sectioning, colon removal and case folding are computed character by    *)
(* character as Qt computes them.                                          *)
(***************************************************************************)
EXTENDS Integers, Sequences, FiniteSets, TLC

VARIABLES
  pattern,      \* filterRegExp().pattern() of the proxy model
  collection,   \* which collection the source model holds: its tree and its grouping
  edits,        \* number of edits made to the filter box
  last,         \* the last filterAcceptsRow call: its inputs, parse result and return value
  where_clauses_,       \* CollectionQuery: the WHERE fragments, each with the call that emitted it
  bound_values_,        \* CollectionQuery: the values to bind, each with the call that emitted it
  include_unavailable_,
  duplicates_only_,
  limit_,
  order_by_,
  calls,        \* number of calls made on the builder since its construction
  db,           \* the QSqlQuery base: prepared statement, bound values, executions, last Exec result
  started,      \* WikipediaArtistBio: per id, whether Start was called and with which artist
  latch,        \* the count of the CountdownLatch that Start created for the id
  replies_,     \* the requests whose reply handler has not run yet
  finished,     \* per id, how many times Finished(id) was emitted
  image_ready   \* per id, how many times ImageReady(id, url) was emitted

fvars == <<pattern, collection, edits, last>>

qvars == <<where_clauses_, bound_values_, include_unavailable_, duplicates_only_,
           limit_, order_by_, calls, db>>

bvars == <<started, latch, replies_, finished, image_ready>>

vars == <<fvars, qvars, bvars>>

----------------------------------------------------------------------------
(* Bounds                                                                   *)

MaxEdits == 2

MaxCalls == 3

MaxTitles == 2    \* image titles taken from one reply

----------------------------------------------------------------------------
(* QString helpers                                                          *)

\* QChar::toLower on the characters the model uses
LowerChar(c) ==
  CASE c = "A" -> "a"
    [] c = "B" -> "b"
    [] c = "F" -> "f"
    [] c = "O" -> "o"
    [] c = "R" -> "r"
    [] OTHER -> c

ToLower(s) == [i \in 1..Len(s) |-> LowerChar(s[i])]

\* QString::contains(sub, Qt::CaseInsensitive)
ContainsCI(s, sub) ==
  \E off \in 0..(Len(s) - Len(sub)) :
    \A i \in 1..Len(sub) : LowerChar(s[off + i]) = LowerChar(sub[i])

\* \s of QRegularExpression, QChar::isSpace
IsSpace(c) == c \in {" ", "\t"}

RECURSIVE SplitFrom(_, _, _, _)
SplitFrom(s, i, cur, acc) ==
  IF i > Len(s)
    THEN (IF cur = <<>> THEN acc ELSE Append(acc, cur))
    ELSE IF IsSpace(s[i])
      THEN SplitFrom(s, i + 1, <<>>, IF cur = <<>> THEN acc ELSE Append(acc, cur))
      ELSE SplitFrom(s, i + 1, Append(cur, s[i]), acc)

\* filter.split(QRegularExpression("\\s+"), Qt::SkipEmptyParts)
Split(s) == SplitFrom(s, 1, <<>>, <<>>)

HasColon(s) == \E i \in 1..Len(s) : s[i] = ":"

FirstColon(s) == CHOOSE i \in 1..Len(s) : s[i] = ":" /\ \A j \in 1..(i - 1) : s[j] # ":"

\* token.section(':', 0, 0)
SectionFirst(s) == IF HasColon(s) THEN SubSeq(s, 1, FirstColon(s) - 1) ELSE s

\* token.section(':', 1, -1)
SectionRest(s) == IF HasColon(s) THEN SubSeq(s, FirstColon(s) + 1, Len(s)) ELSE <<>>

NotColon(c) == c # ":"

\* QString::remove(':')
RemoveColons(s) == SelectSeq(s, NotColon)

RECURSIVE TrimLeft(_)
TrimLeft(s) == IF s # <<>> /\ IsSpace(s[1]) THEN TrimLeft(Tail(s)) ELSE s

RECURSIVE TrimRight(_)
TrimRight(s) ==
  IF s # <<>> /\ IsSpace(s[Len(s)]) THEN TrimRight(SubSeq(s, 1, Len(s) - 1)) ELSE s

\* QString::trimmed()
Trimmed(s) == TrimRight(TrimLeft(s))

----------------------------------------------------------------------------
(* The strings the model uses                                               *)

S_foo == <<"f","o","o">>
S_Foo == <<"F","o","o">>
S_bar == <<"b","a","r">>
S_ab == <<"a","b">>
S_a == <<"a">>
S_B == <<"B">>
S_Ab == <<"A","b">>
S_ba == <<"b","a">>
S_a_b == <<"a"," ","b">>
S_Bar == <<"B","a","r">>
S_b == <<"b">>
S_artist == <<"a","r","t","i","s","t">>
S_albumartist == <<"a","l","b","u","m","a","r","t","i","s","t">>
S_album == <<"a","l","b","u","m">>
S_title == <<"t","i","t","l","e">>
S_genre == <<"g","e","n","r","e">>
S_composer == <<"c","o","m","p","o","s","e","r">>
S_performer == <<"p","e","r","f","o","r","m","e","r">>
S_grouping == <<"g","r","o","u","p","i","n","g">>
S_filetype == <<"f","i","l","e","t","y","p","e">>
S_Artist == <<"A","r","t","i","s","t">>
S_unknown == <<"u","n","k","n","o","w","n">>

----------------------------------------------------------------------------
(* Song::kColumns: the known song-field names a tag prefix is checked       *)
(* against.                                                                 *)

kColumns == { S_albumartist, S_artist, S_album, S_title, S_genre, S_composer,
              S_performer, S_grouping, S_filetype }

kColumnsFolded == {ToLower(c) : c \in kColumns}

\* Song::kColumns.contains(str, Qt::CaseInsensitive)
kColumnsContains(str) == ToLower(str) \in kColumnsFolded

----------------------------------------------------------------------------
(* The token loop of filterAcceptsRow: st = [tags, filter]                  *)

\* QMap::insert: one value per key, the key compared exactly
MapInsert(tags, tag, value) ==
  [k \in (DOMAIN tags) \cup {tag} |-> IF k = tag THEN value ELSE tags[k]]

\* if (!filter.isEmpty()) filter.append(" "); filter += token;
AppendFilter(filter, token) ==
  IF filter = <<>> THEN token ELSE filter \o <<" ">> \o token

\* an unrecognized prefix dropped with its colon
ParseToken_DropPrefix(st, token) ==
  IF HasColon(token)
    THEN IF kColumnsContains(SectionFirst(token))
      THEN LET tag == Trimmed(RemoveColons(SectionFirst(token)))
               value == Trimmed(RemoveColons(SectionRest(token)))
           IN IF tag # <<>> /\ value # <<>>
                THEN [st EXCEPT !.tags = MapInsert(st.tags, tag, value)]
                ELSE st
      ELSE LET t == Trimmed(RemoveColons(SectionRest(token)))
           IN IF t # <<>>
                THEN [st EXCEPT !.filter = AppendFilter(st.filter, t)]
                ELSE st
    ELSE [st EXCEPT !.filter = AppendFilter(st.filter, token)]

ParseToken(st, token) ==
  IF HasColon(token)
    THEN IF kColumnsContains(SectionFirst(token))
      THEN LET tag == Trimmed(RemoveColons(SectionFirst(token)))
               value == Trimmed(RemoveColons(SectionRest(token)))
           IN IF tag # <<>> /\ value # <<>>
                THEN [st EXCEPT !.tags = MapInsert(st.tags, tag, value)]
                ELSE st
      ELSE LET t == Trimmed(RemoveColons(token))
           IN IF t # <<>>
                THEN [st EXCEPT !.filter = AppendFilter(st.filter, t)]
                ELSE st
    ELSE [st EXCEPT !.filter = AppendFilter(st.filter, token)]

RECURSIVE ParseTokens(_, _, _)
ParseTokens(tokens, i, st) ==
  IF i > Len(tokens) THEN st ELSE ParseTokens(tokens, i + 1, ParseToken(st, tokens[i]))

EmptyTags == [k \in {} |-> <<>>]

\* lines 55-84: tokens, filter.clear(), the loop
Parse(text) == ParseTokens(Split(text), 1, [tags |-> EmptyTags, filter |-> <<>>])

----------------------------------------------------------------------------
(* The collection tree                                                      *)

NoItem == 0        \* a null CollectionItem pointer

InvalidSong == [valid |-> FALSE, artist |-> <<>>, albumartist |-> <<>>,
                album |-> <<>>, title |-> <<>>]

ValidSong(ar, aa, al, ti) == [valid |-> TRUE, artist |-> ar, albumartist |-> aa,
                              album |-> al, title |-> ti]

Node(ty, pa, ch, text, md, lvl) ==
  [type |-> ty, parent |-> pa, children |-> ch, display_text |-> text,
   metadata |-> md, container_level |-> lvl]

\* root -> "Ab" -> "b" -> song "a b" ; root -> "B" -> song "ba" ; root -> loading indicator
Tree1 == <<
  Node("Root", NoItem, <<2, 5, 7>>, <<>>, InvalidSong, -1),
  Node("Container", 1, <<3>>, S_Ab, InvalidSong, 0),
  Node("Container", 2, <<4>>, S_b, InvalidSong, 1),
  Node("Song", 3, <<>>, S_a_b, ValidSong(S_a, S_Ab, S_b, S_a_b), -1),
  Node("Container", 1, <<6>>, S_B, InvalidSong, 0),
  Node("Song", 5, <<>>, S_ba, ValidSong(S_b, <<>>, <<>>, S_ba), -1),
  Node("LoadingIndicator", 1, <<>>, <<>>, InvalidSong, -1) >>

\* root -> "a" -> "bar" -> "foo" -> songs "b", "Foo" ; "bar" -> "ab" (an empty container)
Tree2 == <<
  Node("Root", NoItem, <<2>>, <<>>, InvalidSong, -1),
  Node("Container", 1, <<3>>, S_a, InvalidSong, 0),
  Node("Container", 2, <<4, 7>>, S_bar, InvalidSong, 1),
  Node("Container", 3, <<5, 6>>, S_foo, InvalidSong, 2),
  Node("Song", 4, <<>>, S_b, ValidSong(S_ab, S_a, S_bar, S_b), -1),
  Node("Song", 4, <<>>, S_Foo, ValidSong(S_Bar, <<>>, S_foo, S_Foo), -1),
  Node("Container", 3, <<>>, S_ab, InvalidSong, 2) >>

Trees == <<Tree1, Tree2>>

GroupBySchemes == << <<"AlbumArtist", "AlbumDisc", "None">>, <<"Artist", "Album", "Genre">> >>

Collections == DOMAIN Trees

\* the items of the source model: item id -> CollectionItem; 1 is the root
items == Trees[collection]

\* CollectionModel::GetGroupBy(): the key of container level 0, 1, 2
group_by == GroupBySchemes[collection]

ItemIds == DOMAIN items

\* Song::effective_albumartist()
effective_albumartist(md) == IF md.albumartist = <<>> THEN md.artist ELSE md.albumartist

\* CollectionItem::DisplayText()
DisplayText(item) == items[item].display_text

----------------------------------------------------------------------------
(* collectionfilter.cpp: TagMatches, ItemMatches, ChildrenMatches           *)

\* the song node's tags compared by their exact key
TagMatchesSong_ExactKey(item, tags) ==
  LET metadata == items[item].metadata
  IN \E k \in DOMAIN tags :
       LET value == tags[k]
       IN \/ k = S_albumartist /\ ContainsCI(effective_albumartist(metadata), value)
          \/ k = S_artist /\ ContainsCI(metadata.artist, value)
          \/ k = S_album /\ ContainsCI(metadata.album, value)
          \/ k = S_title /\ ContainsCI(metadata.title, value)

\* the song node's tags all required to match
TagMatchesSong_AllTags(item, tags) ==
  LET metadata == items[item].metadata
  IN \A k \in DOMAIN tags :
       LET tag == ToLower(k)
           value == tags[k]
       IN \/ tag = S_albumartist /\ ContainsCI(effective_albumartist(metadata), value)
          \/ tag = S_artist /\ ContainsCI(metadata.artist, value)
          \/ tag = S_album /\ ContainsCI(metadata.album, value)
          \/ tag = S_title /\ ContainsCI(metadata.title, value)

\* TagMatches(item, tags): the song node
TagMatchesSong(item, tags) ==
  LET metadata == items[item].metadata
  IN \E k \in DOMAIN tags :
       LET tag == ToLower(k)
           value == tags[k]
       IN \/ tag = S_albumartist /\ ContainsCI(effective_albumartist(metadata), value)
          \/ tag = S_artist /\ ContainsCI(metadata.artist, value)
          \/ tag = S_album /\ ContainsCI(metadata.album, value)
          \/ tag = S_title /\ ContainsCI(metadata.title, value)

\* the switch of TagMatches(item, group_by, tags); <<>> is the empty QString
GroupByTag(key) ==
  CASE key = "AlbumArtist" -> S_albumartist
    [] key = "Artist" -> S_artist
    [] key \in {"Album", "AlbumDisc", "YearAlbum", "YearAlbumDisc",
                "OriginalYearAlbum", "OriginalYearAlbumDisc"} -> S_album
    [] key = "Genre" -> S_genre
    [] key = "Composer" -> S_composer
    [] key = "Performer" -> S_performer
    [] key = "Grouping" -> S_grouping
    [] key = "FileType" -> S_filetype
    [] OTHER -> <<>>

\* TagMatches(item, group_by, tags): the container node
TagMatchesContainer(item, key, tags) ==
  LET tag == GroupByTag(key)
      value == IF tag # <<>> /\ tag \in DOMAIN tags THEN tags[tag] ELSE <<>>
  IN value # <<>> /\ ContainsCI(DisplayText(item), value)

\* the free-text and the tag condition joined by || instead of &&
ItemMatches_Either(item, tags, filter) ==
  \/ filter = <<>> \/ ContainsCI(DisplayText(item), filter)
  \/ \/ DOMAIN tags = {}
     \/ items[item].metadata.valid /\ TagMatchesSong(item, tags)
     \/ /\ items[item].container_level >= 0
        /\ items[item].container_level <= 2
        /\ TagMatchesContainer(item, group_by[items[item].container_level + 1], tags)

ItemMatches(item, tags, filter) ==
  /\ filter = <<>> \/ ContainsCI(DisplayText(item), filter)
  /\ \/ DOMAIN tags = {}
     \/ items[item].metadata.valid /\ TagMatchesSong(item, tags)
     \/ /\ items[item].container_level >= 0
        /\ items[item].container_level <= 2
        /\ TagMatchesContainer(item, group_by[items[item].container_level + 1], tags)

\* the children looked at without recursing into them
ChildrenMatches_DirectOnly(item, tags, filter) ==
  \/ ItemMatches(item, tags, filter)
  \/ \E i \in 1..Len(items[item].children) :
       ItemMatches(items[item].children[i], tags, filter)

RECURSIVE ChildrenMatches(_, _, _)
ChildrenMatches(item, tags, filter) ==
  \/ ItemMatches(item, tags, filter)
  \/ \E i \in 1..Len(items[item].children) :
       ChildrenMatches(items[item].children[i], tags, filter)

\* the parent looked at without walking further up
ParentsMatch_DirectOnly(parent, tags, filter) ==
  parent # NoItem /\ ItemMatches(parent, tags, filter)

\* for (parent = item->parent ; parent ; parent = parent->parent)
RECURSIVE ParentsMatch(_, _, _)
ParentsMatch(parent, tags, filter) ==
  /\ parent # NoItem
  /\ \/ ItemMatches(parent, tags, filter)
     \/ ParentsMatch(items[parent].parent, tags, filter)

----------------------------------------------------------------------------
(* CollectionFilter::filterAcceptsRow                                       *)

InvalidIndex == -1   \* a row whose QModelIndex is not valid

SourceModels == {"CollectionModel", "OtherModel", "null"}

\* the rows the view asks about: the items below the root, a row with an
\* invalid index, and a valid index that IndexToItem maps to no item
Rows == (ItemIds \ {1}) \cup {InvalidIndex, NoItem}

NoParse == [tags |-> EmptyTags, filter |-> <<>>]

\* lines 86-92, after the parse
Visible(item, tags, filter) ==
  \/ ItemMatches(item, tags, filter)
  \/ ParentsMatch(items[item].parent, tags, filter)
  \/ ChildrenMatches(item, tags, filter)

\* the empty-filter shortcut taken before the source model and the index are looked at
filterAcceptsRow_ShortcutFirst(model, row) ==
  IF pattern = <<>> THEN [accepted |-> TRUE, parse |-> NoParse]
  ELSE IF model # "CollectionModel" THEN [accepted |-> FALSE, parse |-> NoParse]
  ELSE IF row = InvalidIndex THEN [accepted |-> FALSE, parse |-> NoParse]
  ELSE IF row = NoItem THEN [accepted |-> FALSE, parse |-> NoParse]
  ELSE IF items[row].type = "LoadingIndicator" THEN [accepted |-> TRUE, parse |-> NoParse]
  ELSE LET p == Parse(pattern)
       IN [accepted |-> Visible(row, p.tags, p.filter), parse |-> p]

\* the return value, with the parse result it was computed from
filterAcceptsRow(model, row) ==
  IF model # "CollectionModel" THEN [accepted |-> FALSE, parse |-> NoParse]
  ELSE IF row = InvalidIndex THEN [accepted |-> FALSE, parse |-> NoParse]
  ELSE IF row = NoItem THEN [accepted |-> FALSE, parse |-> NoParse]
  ELSE IF items[row].type = "LoadingIndicator" THEN [accepted |-> TRUE, parse |-> NoParse]
  ELSE IF pattern = <<>> THEN [accepted |-> TRUE, parse |-> NoParse]
  ELSE LET p == Parse(pattern)
       IN [accepted |-> Visible(row, p.tags, p.filter), parse |-> p]

NotCalled == [called |-> FALSE, model |-> "null", row |-> NoItem,
              accepted |-> FALSE, tags |-> EmptyTags, filter |-> <<>>]

FilterAcceptsRow(model, row) ==
  /\ LET r == filterAcceptsRow(model, row)
     IN last' = [called |-> TRUE, model |-> model, row |-> row,
                 accepted |-> r.accepted, tags |-> r.parse.tags,
                 filter |-> r.parse.filter]
  /\ UNCHANGED <<pattern, collection, edits>>
  /\ UNCHANGED qvars
  /\ UNCHANGED bvars

----------------------------------------------------------------------------
(* The filter box: the user types into it, or clears it                     *)

Colon == <<":">>
Space == <<" ">>

Pieces == { Space, Colon, S_a, S_b, S_artist \o Colon }

\* the filter box when the user starts editing: empty, or one of these texts
SeedFilters == {
  <<>>,
  S_unknown \o Colon \o S_foo \o Space \o S_bar,
  S_Artist \o Colon \o S_a \o Space \o S_artist \o Colon \o S_b,
  S_artist \o Colon \o S_a,
  S_Artist \o Colon \o S_a,
  S_artist \o Colon \o S_a \o Space \o S_album \o Colon \o S_b,
  S_genre \o Colon \o S_a,
  S_albumartist \o Colon \o S_b }

TypeFilter(piece) ==
  /\ edits < MaxEdits
  /\ pattern' = pattern \o piece
  /\ edits' = edits + 1
  /\ last' = NotCalled
  /\ UNCHANGED collection
  /\ UNCHANGED qvars
  /\ UNCHANGED bvars

InitFilter ==
  /\ pattern \in SeedFilters
  /\ collection \in Collections
  /\ edits = 0
  /\ last = NotCalled

NextFilter ==
  \/ \E piece \in Pieces : TypeFilter(piece)
  \/ \E model \in SourceModels, row \in Rows : FilterAcceptsRow(model, row)

----------------------------------------------------------------------------
(* QVariant: its type, its toString(), its number (thousandths, for a       *)
(* float), its elements (for a list) and whether it is a null QString       *)

Variant(ty, str, num, list, isnull) ==
  [type |-> ty, str |-> str, num |-> num, list |-> list, isnull |-> isnull]

IntV(str) == Variant("Int", str, 0, <<>>, FALSE)
StringV(str) == Variant("String", str, 0, <<>>, FALSE)
NullStringV == Variant("String", "", 0, <<>>, TRUE)
FloatV(num) == Variant("Float", "", num, <<>>, FALSE)
ListV(list) == Variant("List", "", 0, list, FALSE)

\* QVariant::toStringList(): the elements of a list as QStrings, a QString as a
\* list of one, nothing for the other types
toStringList(value) ==
  IF value.type = "List" THEN [i \in 1..Len(value.list) |-> StringV(value.list[i].str)]
  ELSE IF value.type = "String" THEN <<StringV(value.str)>>
  ELSE <<>>

\* QStringList::join(sep) over token sequences
RECURSIVE Join(_, _)
Join(parts, sep) ==
  IF parts = <<>> THEN <<>>
  ELSE IF Len(parts) = 1 THEN parts[1]
  ELSE parts[1] \o sep \o Join(Tail(parts), sep)

----------------------------------------------------------------------------
(* collectionquery.cpp: the builder. A clause is its text, as a sequence of *)
(* SQL tokens, with the number of the call that emitted it (0: the          *)
(* constructor); a bound value carries the same number.                     *)

Clause(text, id) == [text |-> text, op |-> id]
Bound(value, id) == [value |-> value, op |-> id]

Builder(clauses, values) == [where_clauses |-> clauses, bound_values |-> values]

tolerance == 1     \* 0.001F, in thousandths

\* Utilities::ParseSearchRating, in thousandths
ParseSearchRating(str) ==
  CASE str = "4.0" -> 4000
    [] str = "0.5" -> 500
    [] OTHER -> 0

\* QString::compare("IN", Qt::CaseInsensitive) == 0
IsIn(op) == op \in {"IN", "in", "In", "iN"}

\* the IN branch binding the list as one value instead of its elements
AddWhere_BindList(b, column, value, op, id) ==
  IF IsIn(op)
    THEN LET values == toStringList(value)
             final_values == [i \in 1..Len(values) |-> <<"?">>]
         IN Builder(
              Append(b.where_clauses,
                     Clause(<<column, "IN", "(">> \o Join(final_values, <<",">>) \o <<")">>, id)),
              Append(b.bound_values, Bound(value, id)))
    ELSE IF value.type = "Int"
      THEN Builder(Append(b.where_clauses, Clause(<<column, op, value.str>>, id)),
                   b.bound_values)
      ELSE Builder(Append(b.where_clauses, Clause(<<column, op, "?">>, id)),
                   Append(b.bound_values, Bound(value, id)))

AddWhere(b, column, value, op, id) ==
  IF IsIn(op)
    THEN LET values == toStringList(value)
             final_values == [i \in 1..Len(values) |-> <<"?">>]
         IN Builder(
              Append(b.where_clauses,
                     Clause(<<column, "IN", "(">> \o Join(final_values, <<",">>) \o <<")">>, id)),
              b.bound_values \o [i \in 1..Len(values) |-> Bound(values[i], id)])
    ELSE IF value.type = "Int"
      THEN Builder(Append(b.where_clauses, Clause(<<column, op, value.str>>, id)),
                   b.bound_values)
      ELSE IF value.type = "String" /\ value.isnull
        THEN Builder(Append(b.where_clauses, Clause(<<column, op, "?">>, id)),
                     Append(b.bound_values, Bound(StringV(""), id)))
        ELSE Builder(Append(b.where_clauses, Clause(<<column, op, "?">>, id)),
                     Append(b.bound_values, Bound(value, id)))

\* the value bound once for the clause's two placeholders
AddWhereArtist_BindOnce(b, value, id) ==
  Builder(
    Append(b.where_clauses,
           Clause(<<"(", "(", "artist", "=", "?", "AND", "albumartist", "=", "''", ")",
                    "OR", "albumartist", "=", "?", ")">>, id)),
    Append(b.bound_values, Bound(value, id)))

AddWhereArtist(b, value, id) ==
  Builder(
    Append(b.where_clauses,
           Clause(<<"(", "(", "artist", "=", "?", "AND", "albumartist", "=", "''", ")",
                    "OR", "albumartist", "=", "?", ")">>, id)),
    b.bound_values \o <<Bound(value, id), Bound(value, id)>>)

\* the tolerance of the equality branch applied the wrong way round
AddWhereRating_NarrowEqual(b, value, op, id) ==
  LET parsed_rating == ParseSearchRating(value.str)
  IN CASE op = "<" -> AddWhere(b, "rating", FloatV(parsed_rating - tolerance), "<", id)
       [] op = ">" -> AddWhere(b, "rating", FloatV(parsed_rating + tolerance), ">", id)
       [] op = "<=" -> AddWhere(b, "rating", FloatV(parsed_rating + tolerance), "<=", id)
       [] op = ">=" -> AddWhere(b, "rating", FloatV(parsed_rating - tolerance), ">=", id)
       [] op = "<>" ->
            Builder(
              Append(b.where_clauses,
                     Clause(<<"(", "rating", "<", "?", "OR", "rating", ">", "?", ")">>, id)),
              b.bound_values \o <<Bound(FloatV(parsed_rating - tolerance), id),
                                  Bound(FloatV(parsed_rating + tolerance), id)>>)
       [] OTHER ->
            AddWhere(AddWhere(b, "rating", FloatV(parsed_rating - tolerance), "<", id),
                     "rating", FloatV(parsed_rating + tolerance), ">", id)

AddWhereRating(b, value, op, id) ==
  LET parsed_rating == ParseSearchRating(value.str)
  IN CASE op = "<" -> AddWhere(b, "rating", FloatV(parsed_rating - tolerance), "<", id)
       [] op = ">" -> AddWhere(b, "rating", FloatV(parsed_rating + tolerance), ">", id)
       [] op = "<=" -> AddWhere(b, "rating", FloatV(parsed_rating + tolerance), "<=", id)
       [] op = ">=" -> AddWhere(b, "rating", FloatV(parsed_rating - tolerance), ">=", id)
       [] op = "<>" ->
            Builder(
              Append(b.where_clauses,
                     Clause(<<"(", "rating", "<", "?", "OR", "rating", ">", "?", ")">>, id)),
              b.bound_values \o <<Bound(FloatV(parsed_rating - tolerance), id),
                                  Bound(FloatV(parsed_rating + tolerance), id)>>)
       [] OTHER ->
            AddWhere(AddWhere(b, "rating", FloatV(parsed_rating + tolerance), "<", id),
                     "rating", FloatV(parsed_rating - tolerance), ">", id)

AddCompilationRequirement(b, compilation, id) ==
  Builder(
    Append(b.where_clauses,
           Clause(<<"+compilation_effective", "=", IF compilation THEN "1" ELSE "0">>, id)),
    b.bound_values)

\* the constructor's clauses, from the filter options
Constructed(max_age, filter_mode) ==
  LET aged == IF max_age # -1
                THEN Builder(<<Clause(<<"ctime", ">", "?">>, 0)>>,
                             <<Bound(Variant("LongLong", "cutoff", 0, <<>>, FALSE), 0)>>)
                ELSE Builder(<<>>, <<>>)
  IN IF filter_mode = "Untagged"
       THEN Builder(
              Append(aged.where_clauses,
                     Clause(<<"(", "artist", "=", "''", "OR", "album", "=", "''", "OR",
                              "title", "=", "''", ")">>, 0)),
              aged.bound_values)
       ELSE aged

GetInnerQuery ==
  IF duplicates_only_
    THEN <<"INNER", "JOIN", "(", "select", "*", "from", "duplicated_songs", ")", "dsongs",
           "ON", "(", "songs.artist", "=", "dsongs.dup_artist", "AND", "songs.album", "=",
           "dsongs.dup_album", "AND", "songs.title", "=", "dsongs.dup_title", ")">>
    ELSE <<>>

LimitText(n) ==
  CASE n = -2 -> "-2"
    [] n = -1 -> "-1"
    [] n = 0 -> "0"
    [] n = 1 -> "1"
    [] OTHER -> "n"

\* unavailable = 0 added only to a clause list that is not empty
RenderSql_OnlyWithClauses ==
  LET texts == [i \in 1..Len(where_clauses_) |-> where_clauses_[i].text]
      where_clauses == IF ~include_unavailable_ /\ texts # <<>>
                         THEN Append(texts, <<"unavailable", "=", "0">>)
                         ELSE texts
  IN <<"SELECT", "*", "FROM", "songs">> \o GetInnerQuery
       \o (IF where_clauses # <<>> THEN <<"WHERE">> \o Join(where_clauses, <<"AND">>) ELSE <<>>)
       \o (IF order_by_ # "" THEN <<"ORDER", "BY", order_by_>> ELSE <<>>)
       \o (IF limit_ # -1 THEN <<"LIMIT", LimitText(limit_)>> ELSE <<>>)

\* LIMIT rendered only for a positive limit
RenderSql_PositiveLimit ==
  LET texts == [i \in 1..Len(where_clauses_) |-> where_clauses_[i].text]
      where_clauses == IF ~include_unavailable_
                         THEN Append(texts, <<"unavailable", "=", "0">>)
                         ELSE texts
  IN <<"SELECT", "*", "FROM", "songs">> \o GetInnerQuery
       \o (IF where_clauses # <<>> THEN <<"WHERE">> \o Join(where_clauses, <<"AND">>) ELSE <<>>)
       \o (IF order_by_ # "" THEN <<"ORDER", "BY", order_by_>> ELSE <<>>)
       \o (IF limit_ > 0 THEN <<"LIMIT", LimitText(limit_)>> ELSE <<>>)

\* lines 178-191: the statement Exec prepares
RenderSql ==
  LET texts == [i \in 1..Len(where_clauses_) |-> where_clauses_[i].text]
      where_clauses == IF ~include_unavailable_
                         THEN Append(texts, <<"unavailable", "=", "0">>)
                         ELSE texts
  IN <<"SELECT", "*", "FROM", "songs">> \o GetInnerQuery
       \o (IF where_clauses # <<>> THEN <<"WHERE">> \o Join(where_clauses, <<"AND">>) ELSE <<>>)
       \o (IF order_by_ # "" THEN <<"ORDER", "BY", order_by_>> ELSE <<>>)
       \o (IF limit_ # -1 THEN <<"LIMIT", LimitText(limit_)>> ELSE <<>>)

----------------------------------------------------------------------------
(* The builder's calls                                                      *)

\* the (column, value, op) triples AddWhere is called with
WhereInputs ==
  { <<"track", IntV("1"), "=">>, <<"artist", StringV("a"), "=">>,
    <<"artist", NullStringV, "<>">>,
    <<"track", ListV(<<IntV("1"), IntV("2"), IntV("3")>>), "IN">>,
    <<"track", ListV(<<IntV("1"), IntV("2"), IntV("3")>>), "in">>,
    <<"track", ListV(<<>>), "IN">>, <<"artist", StringV("a"), "In">>,
    <<"artist", ListV(<<StringV("a"), StringV("b")>>), "iN">> }

RatingOps == {"<", ">", "<=", ">=", "<>", "="}

RatingValues == {StringV("4.0")}

\* the (max_age, filter_mode) pairs the builder is constructed with
FilterOptions == { <<-1, "All">>, <<60, "Duplicates">>, <<60, "Untagged">> }

Current == Builder(where_clauses_, bound_values_)

Store(b) ==
  /\ where_clauses_' = b.where_clauses
  /\ bound_values_' = b.bound_values
  /\ calls' = calls + 1
  /\ UNCHANGED <<include_unavailable_, duplicates_only_, limit_, order_by_, db>>
  /\ UNCHANGED fvars
  /\ UNCHANGED bvars

DoAddWhere(column, value, op) ==
  /\ calls < MaxCalls
  /\ Store(AddWhere(Current, column, value, op, calls + 1))

DoAddWhereArtist(value) ==
  /\ calls < MaxCalls
  /\ Store(AddWhereArtist(Current, value, calls + 1))

DoAddWhereRating(value, op) ==
  /\ calls < MaxCalls
  /\ Store(AddWhereRating(Current, value, op, calls + 1))

DoAddCompilationRequirement(compilation) ==
  /\ calls < MaxCalls
  /\ Store(AddCompilationRequirement(Current, compilation, calls + 1))

\* the setters of the builder's options
Limits == {-2, -1, 0, 1}

OrderBys == {"", "title"}

SetIncludeUnavailable(include_unavailable) ==
  /\ include_unavailable_' = include_unavailable
  /\ UNCHANGED <<where_clauses_, bound_values_, duplicates_only_, limit_, order_by_,
                 calls, db>>
  /\ UNCHANGED fvars
  /\ UNCHANGED bvars

SetLimit(limit) ==
  /\ limit_' = limit
  /\ UNCHANGED <<where_clauses_, bound_values_, include_unavailable_, duplicates_only_,
                 order_by_, calls, db>>
  /\ UNCHANGED fvars
  /\ UNCHANGED bvars

SetOrderBy(order_by) ==
  /\ order_by_' = order_by
  /\ UNCHANGED <<where_clauses_, bound_values_, include_unavailable_, duplicates_only_,
                 limit_, calls, db>>
  /\ UNCHANGED fvars
  /\ UNCHANGED bvars

NoDb == [sql |-> <<>>, bind_values |-> <<>>, executions |-> 0, state |-> "new",
         ret |-> FALSE]

\* the result of prepare ignored: the values are bound and the statement run anyway
Exec_IgnorePrepare(prepare_ok, exec_ok) ==
  /\ calls < MaxCalls
  /\ calls' = calls + 1
  /\ db' = [sql |-> IF prepare_ok THEN RenderSql ELSE <<>>,
            bind_values |-> bound_values_,
            executions |-> db.executions + 1,
            state |-> IF ~prepare_ok THEN "prepare_failed"
                      ELSE IF exec_ok THEN "executed" ELSE "exec_failed",
            ret |-> prepare_ok /\ exec_ok]
  /\ UNCHANGED <<where_clauses_, bound_values_, include_unavailable_, duplicates_only_,
                 limit_, order_by_>>
  /\ UNCHANGED fvars
  /\ UNCHANGED bvars

\* the builder emptied by an execution
Exec_ResetsBuilder(prepare_ok, exec_ok) ==
  /\ calls < MaxCalls
  /\ calls' = calls + 1
  /\ db' = IF ~prepare_ok
             THEN [db EXCEPT !.sql = <<>>, !.bind_values = <<>>,
                             !.state = "prepare_failed", !.ret = FALSE]
             ELSE [sql |-> RenderSql,
                   bind_values |-> bound_values_,
                   executions |-> db.executions + 1,
                   state |-> IF exec_ok THEN "executed" ELSE "exec_failed",
                   ret |-> exec_ok]
  /\ where_clauses_' = IF prepare_ok THEN <<>> ELSE where_clauses_
  /\ bound_values_' = IF prepare_ok THEN <<>> ELSE bound_values_
  /\ UNCHANGED <<include_unavailable_, duplicates_only_, limit_, order_by_>>
  /\ UNCHANGED fvars
  /\ UNCHANGED bvars

\* Exec: prepare clears the values bound before; it and exec can each fail
Exec(prepare_ok, exec_ok) ==
  /\ calls < MaxCalls
  /\ calls' = calls + 1
  /\ db' = IF ~prepare_ok
             THEN [db EXCEPT !.sql = <<>>, !.bind_values = <<>>,
                             !.state = "prepare_failed", !.ret = FALSE]
             ELSE [sql |-> RenderSql,
                   bind_values |-> bound_values_,
                   executions |-> db.executions + 1,
                   state |-> IF exec_ok THEN "executed" ELSE "exec_failed",
                   ret |-> exec_ok]
  /\ UNCHANGED <<where_clauses_, bound_values_, include_unavailable_, duplicates_only_,
                 limit_, order_by_>>
  /\ UNCHANGED fvars
  /\ UNCHANGED bvars

\* CollectionQuery::CollectionQuery
InitQuery(max_age, filter_mode) ==
  /\ where_clauses_ = Constructed(max_age, filter_mode).where_clauses
  /\ bound_values_ = Constructed(max_age, filter_mode).bound_values
  /\ duplicates_only_ = (filter_mode = "Duplicates")
  /\ include_unavailable_ = FALSE
  /\ limit_ = -1
  /\ order_by_ = ""
  /\ calls = 0
  /\ db = NoDb

NextQuery ==
  \/ \E i \in WhereInputs : DoAddWhere(i[1], i[2], i[3])
  \/ \E value \in {StringV("a")} : DoAddWhereArtist(value)
  \/ \E value \in RatingValues, op \in RatingOps : DoAddWhereRating(value, op)
  \/ \E compilation \in BOOLEAN : DoAddCompilationRequirement(compilation)
  \/ \E prepare_ok \in BOOLEAN, exec_ok \in BOOLEAN : Exec(prepare_ok, exec_ok)

----------------------------------------------------------------------------
(* wikipediaartistbio.cpp: Start and the reply handlers. Every handler runs *)
(* to its end on the provider's event loop before the next one starts.      *)

BioIds == {1, 2, 3}

Artists == {"", "a"}

NotStarted == [called |-> FALSE, artist |-> ""]

\* a request in flight: the id it was issued for, what it asks, and its number
\* among the image requests of that id (0 for the image-titles request)
Reply(id, kind, n) == [id |-> id, kind |-> kind, n |-> n]

\* CountdownLatch::Wait
Wait(count) == count + 1

\* CountdownLatch::CountDown: the new count, and whether Done is emitted
CountDown(count) == [count |-> count - 1, done |-> count - 1 = 0]

\* the lambda connected to Done emits Finished(id)
EmitFinished(id, done) ==
  finished' = [finished EXCEPT ![id] = IF done THEN @ + 1 ELSE @]

\* GetImageTitles: Wait, CreateRequest, connect
GetImageTitles(id) ==
  /\ latch' = [latch EXCEPT ![id] = Wait(0)]
  /\ replies_' = replies_ \cup {Reply(id, "titles", 0)}

Start(id, artist) ==
  /\ ~started[id].called
  /\ started' = [started EXCEPT ![id] = [called |-> TRUE, artist |-> artist]]
  /\ IF artist = ""
       THEN /\ EmitFinished(id, TRUE)
            /\ UNCHANGED <<latch, replies_>>
       ELSE /\ GetImageTitles(id)
            /\ UNCHANGED finished
  /\ UNCHANGED image_ready
  /\ UNCHANGED <<fvars, qvars>>

\* the count-down made before the image requests are started
GetImageTitlesFinished_CountDownFirst(reply, titles) ==
  /\ reply \in replies_ /\ reply.kind = "titles"
  /\ LET counted == CountDown(latch[reply.id])
     IN /\ latch' = [latch EXCEPT ![reply.id] = counted.count + titles]
        /\ EmitFinished(reply.id, counted.done)
  /\ replies_' = (replies_ \ {reply})
                   \cup {Reply(reply.id, "image", n) : n \in 1..titles}
  /\ UNCHANGED <<started, image_ready>>
  /\ UNCHANGED <<fvars, qvars>>

\* titles: how many .jpg/.png file names the reply holds (none for a failed
\* request or a reply that is not the expected JSON)
GetImageTitlesFinished(reply, titles) ==
  /\ reply \in replies_ /\ reply.kind = "titles"
  /\ LET waited == latch[reply.id] + titles     \* GetImage: Wait, once per title
         counted == CountDown(waited)
     IN /\ latch' = [latch EXCEPT ![reply.id] = counted.count]
        /\ EmitFinished(reply.id, counted.done)
  /\ replies_' = (replies_ \ {reply})
                   \cup {Reply(reply.id, "image", n) : n \in 1..titles}
  /\ UNCHANGED <<started, image_ready>>
  /\ UNCHANGED <<fvars, qvars>>

\* urls: how many image urls of the reply pass ExtractImageUrls
GetImageFinished(reply, urls) ==
  /\ reply \in replies_ /\ reply.kind = "image"
  /\ replies_' = replies_ \ {reply}
  /\ image_ready' = [image_ready EXCEPT ![reply.id] = @ + urls]
  /\ LET counted == CountDown(latch[reply.id])
     IN /\ latch' = [latch EXCEPT ![reply.id] = counted.count]
        /\ EmitFinished(reply.id, counted.done)
  /\ UNCHANGED started
  /\ UNCHANGED <<fvars, qvars>>

\* WikipediaArtistBio::WikipediaArtistBio
InitBio ==
  /\ started = [id \in BioIds |-> NotStarted]
  /\ latch = [id \in BioIds |-> 0]
  /\ replies_ = {}
  /\ finished = [id \in BioIds |-> 0]
  /\ image_ready = [id \in BioIds |-> 0]

AllReplies ==
  {Reply(id, "titles", 0) : id \in BioIds}
    \cup {Reply(id, "image", n) : id \in BioIds, n \in 1..MaxTitles}

NextBio ==
  \/ \E id \in BioIds, artist \in Artists : Start(id, artist)
  \/ \E reply \in AllReplies, titles \in 0..MaxTitles : GetImageTitlesFinished(reply, titles)
  \/ \E reply \in AllReplies, urls \in 0..1 : GetImageFinished(reply, urls)

----------------------------------------------------------------------------
(* Specifications                                                           *)

\* the filter: a builder that stays as constructed
Init == InitFilter /\ InitQuery(-1, "All") /\ InitBio

Next == NextFilter

Spec == Init /\ [][Next]_vars

\* the query builder: a filter that stays idle
InitBuilder ==
  /\ pattern = <<>> /\ collection = 1 /\ edits = 0 /\ last = NotCalled
  /\ \E o \in FilterOptions : InitQuery(o[1], o[2])
  /\ InitBio

SpecQuery == InitBuilder /\ [][NextQuery]_vars

\* the options and the execution: the builder's setters, two of its clause
\* calls and Exec
NextExec ==
  \/ \E include_unavailable \in BOOLEAN : SetIncludeUnavailable(include_unavailable)
  \/ \E limit \in Limits : SetLimit(limit)
  \/ \E order_by \in OrderBys : SetOrderBy(order_by)
  \/ \E value \in {StringV("a")} : DoAddWhereArtist(value)
  \/ \E compilation \in BOOLEAN : DoAddCompilationRequirement(compilation)
  \/ \E prepare_ok \in BOOLEAN, exec_ok \in BOOLEAN : Exec(prepare_ok, exec_ok)

SpecExec == InitBuilder /\ [][NextExec]_vars

\* the biography provider: an idle filter and a builder that stays as constructed
InitProvider ==
  /\ pattern = <<>> /\ collection = 1 /\ edits = 0 /\ last = NotCalled
  /\ InitQuery(-1, "All")
  /\ InitBio

SpecBio == InitProvider /\ [][NextBio]_vars

----------------------------------------------------------------------------
(* C1 *)

IsPlaceholder(tok) == tok = "?"

Placeholders(text) == Len(SelectSeq(text, IsPlaceholder))

\* the emitting call of each placeholder, read in clause order
RECURSIVE PlaceholderOps(_)
PlaceholderOps(clauses) ==
  IF clauses = <<>> THEN <<>>
  ELSE [i \in 1..Placeholders(clauses[1].text) |-> clauses[1].op]
         \o PlaceholderOps(Tail(clauses))

\* C1: the placeholders of the accumulated clauses, in clause order, are as many
\* as the accumulated bound values and the k-th placeholder was emitted by the
\* call that emitted the k-th value; a statement Exec prepared has one
\* placeholder per value bound to it, bound in the builder's order, while its
\* unavailable = 0 clause brings none.
C1_PlaceholdersMatchValues ==
  /\ PlaceholderOps(where_clauses_)
       = [i \in 1..Len(bound_values_) |-> bound_values_[i].op]
  /\ db.state \in {"executed", "exec_failed"} =>
       /\ Placeholders(db.sql) = Len(db.bind_values)
       /\ Len(db.bind_values) <= Len(bound_values_)
       /\ db.bind_values = SubSeq(bound_values_, 1, Len(db.bind_values))
       /\ \E i \in 1..Len(db.sql) : db.sql[i] = "unavailable"

\* an executed statement bound to values of the constructor and of a later call
C1_Witness ==
  /\ db.state = "executed"
  /\ Len(db.bind_values) >= 3
  /\ \E i, j \in 1..Len(db.bind_values) : db.bind_values[i].op # db.bind_values[j].op
  /\ \E i \in 1..Len(where_clauses_) : Placeholders(where_clauses_[i].text) = 0

----------------------------------------------------------------------------
(* Vocabulary of the claims about the filter                                *)

\* the last call went past the shortcuts: it parsed the filter text and matched
Parsed ==
  /\ last.called
  /\ last.model = "CollectionModel"
  /\ last.row \in ItemIds
  /\ items[last.row].type # "LoadingIndicator"
  /\ pattern # <<>>

\* the ancestors of an item, following the parent links up to the root
RECURSIVE Ancestors(_)
Ancestors(n) ==
  IF items[n].parent = NoItem THEN {}
  ELSE {items[n].parent} \cup Ancestors(items[n].parent)

\* the descendants of an item at any depth
Descendants(n) == {d \in ItemIds : n \in Ancestors(d)}

IsSong(n) == items[n].metadata.valid

IsContainer(n) == items[n].type = "Container"

\* the colon-bearing tokens of the filter text
ColonTokens == {t \in {Split(pattern)[i] : i \in 1..Len(Split(pattern))} : HasColon(t)}

\* the words of the parsed free text
FilterWords == {Split(last.filter)[i] : i \in 1..Len(Split(last.filter))}

----------------------------------------------------------------------------
(* C2 *)

\* C2: a row that is a valid item other than the loading indicator is accepted,
\* under a non-empty filter text, exactly when ItemMatches holds for the item,
\* one of its ancestors or one of its descendants.
C2_SelfAncestorDescendant ==
  Parsed =>
    (last.accepted <=>
       \E n \in {last.row} \cup Ancestors(last.row) \cup Descendants(last.row) :
         ItemMatches(n, last.tags, last.filter))

\* an item accepted only because an item two levels below it matches
C2_Witness ==
  /\ Parsed
  /\ last.accepted
  /\ \A n \in {last.row} \cup Ancestors(last.row) :
       ~ItemMatches(n, last.tags, last.filter)
  /\ \A i \in 1..Len(items[last.row].children) :
       ~ItemMatches(items[last.row].children[i], last.tags, last.filter)

----------------------------------------------------------------------------
(* C3 *)

\* the values v of the artist:<v> tokens of the filter text
ArtistTokenValues ==
  {Trimmed(RemoveColons(SectionRest(t))) :
     t \in {u \in ColonTokens : ToLower(SectionFirst(u)) = S_artist}} \ {<<>>}

\* C3 as stated: with an artist:<v> token in the filter, a song whose artist
\* contains v is accepted, and so is each of its ancestors.
C3_AsStated ==
  Parsed =>
    \A v \in ArtistTokenValues : \A s \in ItemIds :
      (IsSong(s) /\ ContainsCI(items[s].metadata.artist, v)
         /\ last.row \in {s} \cup Ancestors(s))
      => last.accepted

\* C3: when the filter text leaves no free text and its tag map holds v for
\* artist, a song whose artist contains v is accepted, and so is each of its
\* ancestors, whatever their display text.
C3_ArtistSongAndAncestors ==
  (Parsed /\ last.filter = <<>>) =>
    \A k \in DOMAIN last.tags : \A s \in ItemIds :
      (ToLower(k) = S_artist /\ IsSong(s)
         /\ ContainsCI(items[s].metadata.artist, last.tags[k])
         /\ last.row \in {s} \cup Ancestors(s))
      => last.accepted

\* an ancestor container whose display text does not hold v, accepted for its song
C3_Witness ==
  /\ Parsed /\ last.filter = <<>> /\ last.accepted
  /\ IsContainer(last.row)
  /\ \E k \in DOMAIN last.tags : \E s \in Descendants(last.row) :
       /\ ToLower(k) = S_artist /\ IsSong(s)
       /\ ContainsCI(items[s].metadata.artist, last.tags[k])
       /\ ~ContainsCI(DisplayText(last.row), last.tags[k])
       /\ items[s].parent # last.row

----------------------------------------------------------------------------
(* C4 *)

\* C4: under a filter with no tag, a song below a container whose display text
\* contains the free text is accepted, whatever the song's own fields and text.
C4_ContainerShowsSongs ==
  (Parsed /\ DOMAIN last.tags = {}) =>
    \A c \in Ancestors(last.row) :
      (IsSong(last.row) /\ IsContainer(c) /\ ContainsCI(DisplayText(c), last.filter))
      => last.accepted

\* a song whose text does not hold the free text, below a matching container
\* that is not its parent
C4_Witness ==
  /\ Parsed /\ DOMAIN last.tags = {} /\ last.filter # <<>>
  /\ IsSong(last.row) /\ last.accepted
  /\ ~ContainsCI(DisplayText(last.row), last.filter)
  /\ ~ContainsCI(DisplayText(items[last.row].parent), last.filter)
  /\ \E c \in Ancestors(last.row) :
       IsContainer(c) /\ ContainsCI(DisplayText(c), last.filter)

----------------------------------------------------------------------------
(* C5 *)

FreeTextCondition(n) == last.filter = <<>> \/ ContainsCI(DisplayText(n), last.filter)

TagCondition(n) ==
  \/ DOMAIN last.tags = {}
  \/ IsSong(n) /\ TagMatchesSong(n, last.tags)
  \/ /\ items[n].container_level \in 0..2
     /\ TagMatchesContainer(n, group_by[items[n].container_level + 1], last.tags)

\* C5: ItemMatches holds of a node exactly when the node meets the free-text
\* condition and the tag condition, both on that same node.
C5_BothConditions ==
  Parsed =>
    \A n \in ItemIds :
      ItemMatches(n, last.tags, last.filter) <=> (FreeTextCondition(n) /\ TagCondition(n))

\* a row that meets the free-text condition alone, under a filter with a tag
\* and a free text, and is hidden
C5_Witness ==
  /\ Parsed /\ ~last.accepted
  /\ DOMAIN last.tags # {} /\ last.filter # <<>>
  /\ FreeTextCondition(last.row) /\ ~TagCondition(last.row)
  /\ \E n \in ItemIds : TagCondition(n) /\ ~FreeTextCondition(n)

----------------------------------------------------------------------------
(* C6 *)

\* the song fields a tag is compared with: the effective album artist for albumartist
SongFields(s) ==
  LET md == items[s].metadata
  IN { <<S_albumartist, effective_albumartist(md)>>,
       <<S_artist, md.artist>>, <<S_album, md.album>>, <<S_title, md.title>> }

UnmatchedSongTags == {S_performer, S_genre, S_composer, S_grouping, S_filetype}

\* C6: the song tag match holds exactly when some pair of the tag map names one
\* of albumartist, artist, album, title and that field of the song contains the
\* value; a map of performer, genre, composer, grouping, filetype alone never matches.
C6_SongTagsAnyOf ==
  Parsed =>
    \A s \in ItemIds : IsSong(s) =>
      /\ TagMatchesSong(s, last.tags) <=>
           \E k \in DOMAIN last.tags : \E f \in SongFields(s) :
             ToLower(k) = f[1] /\ ContainsCI(f[2], last.tags[k])
      /\ (\A k \in DOMAIN last.tags : ToLower(k) \in UnmatchedSongTags)
           => ~TagMatchesSong(s, last.tags)

\* a song accepted for one of two tags while the other tag does not match it
C6_Witness ==
  /\ Parsed /\ last.accepted /\ IsSong(last.row)
  /\ ItemMatches(last.row, last.tags, last.filter)
  /\ \E k1, k2 \in DOMAIN last.tags :
       /\ ToLower(k1) = S_artist /\ ToLower(k2) = S_album
       /\ ContainsCI(items[last.row].metadata.artist, last.tags[k1])
       /\ ~ContainsCI(items[last.row].metadata.album, last.tags[k2])

----------------------------------------------------------------------------
(* C7 *)

\* the tag name the claim gives each grouping key; <<>> for the keys without one
ClaimedTagOfKey(key) ==
  CASE key = "AlbumArtist" -> S_albumartist
    [] key = "Artist" -> S_artist
    [] key \in {"Album", "AlbumDisc", "YearAlbum", "YearAlbumDisc",
                "OriginalYearAlbum", "OriginalYearAlbumDisc"} -> S_album
    [] key = "Genre" -> S_genre
    [] key = "Composer" -> S_composer
    [] key = "Performer" -> S_performer
    [] key = "Grouping" -> S_grouping
    [] key = "FileType" -> S_filetype
    [] key \in {"Disc", "Year", "OriginalYear", "Format", "Bitdepth", "Samplerate",
                "Bitrate", "None"} -> <<>>

\* C7 as stated: a container at level 0..2 matches by tag exactly when its
\* grouping key has a tag name, the filter text gave that tag (tag names are
\* case-insensitive) and the display text contains the tag's value.
C7_AsStated ==
  Parsed =>
    \A c \in ItemIds : items[c].container_level \in 0..2 =>
      LET key == group_by[items[c].container_level + 1]
      IN TagMatchesContainer(c, key, last.tags) <=>
           /\ ClaimedTagOfKey(key) # <<>>
           /\ \E k \in DOMAIN last.tags :
                ToLower(k) = ClaimedTagOfKey(key) /\ ContainsCI(DisplayText(c), last.tags[k])

----------------------------------------------------------------------------
(* C8 *)

\* the token is recorded as a tag: known prefix, both halves non-empty
IsTagToken(t) ==
  /\ HasColon(t)
  /\ kColumnsContains(SectionFirst(t))
  /\ Trimmed(RemoveColons(SectionFirst(t))) # <<>>
  /\ Trimmed(RemoveColons(SectionRest(t))) # <<>>

\* C8 as stated: the tag map is keyed by the lowercased tag name, one entry per
\* tag, holding the value of the tag's last occurrence in any letter case.
C8_AsStated ==
  Parsed =>
    LET toks == Split(pattern)
    IN /\ \A k \in DOMAIN last.tags : k = ToLower(k)
       /\ \A i \in 1..Len(toks) :
            (/\ IsTagToken(toks[i])
             /\ \A j \in (i + 1)..Len(toks) :
                  IsTagToken(toks[j]) =>
                    ToLower(SectionFirst(toks[j])) # ToLower(SectionFirst(toks[i])))
            => /\ ToLower(SectionFirst(toks[i])) \in DOMAIN last.tags
               /\ last.tags[ToLower(SectionFirst(toks[i]))]
                    = Trimmed(RemoveColons(SectionRest(toks[i])))

----------------------------------------------------------------------------
(* C9 *)

UnknownFooBar == S_unknown \o Colon \o S_foo \o Space \o S_bar

\* C9 as stated: unknown:foo bar parses to no tag and the free text "foo bar".
C9_AsStated ==
  (Parsed /\ pattern = UnknownFooBar) =>
    (DOMAIN last.tags = {} /\ last.filter = S_foo \o Space \o S_bar)

\* C9: unknown:foo bar parses to no tag and the free text "unknownfoo bar":
\* the colon is removed and the prefix stays.
C9_UnknownPrefixKept ==
  (Parsed /\ pattern = UnknownFooBar) =>
    (DOMAIN last.tags = {} /\ last.filter = S_unknown \o S_foo \o Space \o S_bar)

C9_Witness == Parsed /\ pattern = UnknownFooBar

----------------------------------------------------------------------------
(* C10 *)

\* C10 as stated: a colon-bearing token that is not recorded as a tag goes to
\* the free text with its colons removed, when that remainder is not empty.
C10_AsStated ==
  Parsed =>
    \A t \in ColonTokens :
      (~IsTagToken(t) /\ RemoveColons(t) # <<>>) => RemoveColons(t) \in FilterWords

----------------------------------------------------------------------------
(* C11 *)

\* the call cannot reach an item: no collection model behind the proxy, an
\* index that is not valid, or an index that maps to no item
NoItemReached ==
  \/ last.model # "CollectionModel"
  \/ last.row = InvalidIndex
  \/ last.row = NoItem

\* C11: filterAcceptsRow returns false whenever the source model is missing or
\* is not a collection model, the index is invalid or maps to no item, for every
\* filter text, the empty one included, and also when the row asked about is
\* the loading indicator.
C11_FailClosed ==
  (last.called /\ NoItemReached) => ~last.accepted

\* a call with no collection model behind the proxy, about the loading
\* indicator's row, with an empty filter
C11_Witness ==
  /\ last.called /\ last.model # "CollectionModel"
  /\ last.row \in ItemIds /\ items[last.row].type = "LoadingIndicator"
  /\ pattern = <<>>
  /\ ~last.accepted

----------------------------------------------------------------------------
(* C12 *)

\* n placeholders separated by commas
RECURSIVE QuestionMarks(_)
QuestionMarks(n) ==
  IF n = 0 THEN <<>>
  ELSE IF n = 1 THEN <<"?">>
  ELSE <<"?", ",">> \o QuestionMarks(n - 1)

InClause(column, n) == <<column, "IN", "(">> \o QuestionMarks(n) \o <<")">>

\* the AddWhere calls of the claim: a list, with IN in some letter case
InListInputs == {i \in WhereInputs : IsIn(i[3]) /\ i[2].type = "List"}

\* C12 as stated: AddWhere(column, list, IN) appends one clause
\* column IN (?,...,?) with one placeholder per element and appends the
\* elements themselves to the bound values, in list order; what was there
\* before is unchanged.
C12_AsStated ==
  [][\A i \in InListInputs : DoAddWhere(i[1], i[2], i[3]) =>
       /\ where_clauses_' = Append(where_clauses_,
                                   Clause(InClause(i[1], Len(i[2].list)), calls + 1))
       /\ bound_values_' = bound_values_
                             \o [k \in 1..Len(i[2].list) |-> Bound(i[2].list[k], calls + 1)]
    ]_vars

\* C12: AddWhere(column, list, IN) appends one clause column IN (?,...,?) with
\* one placeholder per element and appends the QString form of each element
\* to the bound values, in list order; what was there before is unchanged.
C12_InBindsElementStrings ==
  [][\A i \in InListInputs : DoAddWhere(i[1], i[2], i[3]) =>
       /\ where_clauses_' = Append(where_clauses_,
                                   Clause(InClause(i[1], Len(i[2].list)), calls + 1))
       /\ bound_values_' = bound_values_
                             \o [k \in 1..Len(i[2].list) |->
                                   Bound(StringV(i[2].list[k].str), calls + 1)]
    ]_vars

\* track IN (?,?,?) appended after earlier clauses and values, with the three
\* strings bound by the same call
C12_Witness ==
  \E c \in 2..Len(where_clauses_) :
    /\ where_clauses_[c].text = <<"track", "IN", "(", "?", ",", "?", ",", "?", ")">>
    /\ Len(bound_values_) >= 4
    /\ LET n == Len(bound_values_)
       IN /\ \A k \in 1..3 : bound_values_[n - 3 + k].op = where_clauses_[c].op
          /\ [k \in 1..3 |-> bound_values_[n - 3 + k].value]
               = <<StringV("1"), StringV("2"), StringV("3")>>
          /\ bound_values_[n - 3].op # where_clauses_[c].op

----------------------------------------------------------------------------
(* C13 *)

\* the comparisons a clause states, read off its text and the values bound to
\* its placeholders: each is <<operator, bound number in thousandths>>
Comparison(cmp, num) == <<cmp, num>>

\* the clauses the claim gives for AddWhereRating(v, op), each as the way its
\* comparisons are joined and the comparisons, with e the 0.001 of the claim
ClaimedRatingClauses(v, op) ==
  LET e == 1
  IN CASE op = "<" -> << <<"one", <<Comparison("<", v - e)>> >> >>
       [] op = ">" -> << <<"one", <<Comparison(">", v + e)>> >> >>
       [] op = "<=" -> << <<"one", <<Comparison("<=", v + e)>> >> >>
       [] op = ">=" -> << <<"one", <<Comparison(">=", v - e)>> >> >>
       [] op = "<>" -> << <<"OR", <<Comparison("<", v - e), Comparison(">", v + e)>> >> >>
       [] op = "=" -> << <<"one", <<Comparison("<", v + e)>> >>,
                         <<"one", <<Comparison(">", v - e)>> >> >>

\* a clause on rating and the values bound to it, read as joined comparisons
ReadRatingClause(text, values) ==
  IF Len(text) = 3 /\ text[1] = "rating" /\ text[3] = "?" /\ Len(values) = 1
    THEN <<"one", <<Comparison(text[2], values[1].value.num)>> >>
  ELSE IF /\ Len(text) = 9 /\ Len(values) = 2
          /\ text[1] = "(" /\ text[2] = "rating" /\ text[4] = "?" /\ text[5] = "OR"
          /\ text[6] = "rating" /\ text[8] = "?" /\ text[9] = ")"
    THEN <<"OR", <<Comparison(text[3], values[1].value.num),
                   Comparison(text[7], values[2].value.num)>> >>
  ELSE <<"other", <<>> >>

\* the clauses appended by a step, each read with its own bound values
RECURSIVE ReadRatingClauses(_, _)
ReadRatingClauses(clauses, values) ==
  IF clauses = <<>> THEN <<>>
  ELSE LET n == Placeholders(clauses[1].text)
       IN IF n > Len(values) THEN << <<"other", <<>> >> >>
          ELSE <<ReadRatingClause(clauses[1].text, SubSeq(values, 1, n))>>
                 \o ReadRatingClauses(Tail(clauses), SubSeq(values, n + 1, Len(values)))

\* C13: AddWhereRating(v, op) appends, after what was there, for < the predicate
\* rating < v-e, for > rating > v+e, for <= rating <= v+e, for >= rating >= v-e,
\* for <> one clause (rating < v-e OR rating > v+e), and for = the two clauses
\* rating < v+e and rating > v-e, every number bound as a float; e is 0.001.
C13_RatingTolerance ==
  [][\A value \in RatingValues, op \in RatingOps : DoAddWhereRating(value, op) =>
       LET n == Len(where_clauses_)
           m == Len(bound_values_)
           added == SubSeq(where_clauses_', n + 1, Len(where_clauses_'))
           bound == SubSeq(bound_values_', m + 1, Len(bound_values_'))
       IN /\ SubSeq(where_clauses_', 1, n) = where_clauses_
          /\ SubSeq(bound_values_', 1, m) = bound_values_
          /\ \A k \in 1..Len(bound) : bound[k].value.type = "Float"
          /\ ReadRatingClauses(added, bound)
               = ClaimedRatingClauses(ParseSearchRating(value.str), op)
    ]_vars

\* 4.0 with = after an earlier call: rating < 4.001 and rating > 3.999, as the
\* last two clauses, from one call
C13_Witness ==
  LET n == Len(where_clauses_)
      m == Len(bound_values_)
  IN /\ n >= 3 /\ m >= 2
     /\ where_clauses_[n - 1].text = <<"rating", "<", "?">>
     /\ where_clauses_[n].text = <<"rating", ">", "?">>
     /\ where_clauses_[n - 1].op = where_clauses_[n].op
     /\ bound_values_[m - 1] = Bound(FloatV(4001), where_clauses_[n].op)
     /\ bound_values_[m] = Bound(FloatV(3999), where_clauses_[n].op)

----------------------------------------------------------------------------
(* C14 *)

\* a call of Exec, and one whose statement was prepared
ExecStep == \E prepare_ok \in BOOLEAN, exec_ok \in BOOLEAN : Exec(prepare_ok, exec_ok)

PreparedStep == ExecStep /\ db'.state # "prepare_failed"

\* the positions of a token in a statement
TokenAt(sql, tok) == {i \in 1..Len(sql) : sql[i] = tok}

HasToken(sql, tok) == TokenAt(sql, tok) # {}

\* the statement holds exactly these clauses, AND-ed, right after its WHERE
WhereIs(sql, clauses) ==
  LET joined == Join(clauses, <<"AND">>)
  IN \E i \in TokenAt(sql, "WHERE") :
       /\ i + Len(joined) <= Len(sql)
       /\ SubSeq(sql, i + 1, i + Len(joined)) = joined
       /\ i + Len(joined) < Len(sql) => sql[i + Len(joined) + 1] \in {"ORDER", "LIMIT"}

AccumulatedTexts == [i \in 1..Len(where_clauses_) |-> where_clauses_[i].text]

\* C14: with include_unavailable false the statement Exec prepares has the
\* accumulated clauses and then unavailable = 0, AND-ed after WHERE, also when
\* no clause was accumulated; with include_unavailable true it has no
\* unavailable clause, and no WHERE at all when no clause was accumulated.
C14_UnavailableClause ==
  [][PreparedStep =>
       /\ ~include_unavailable_ =>
            WhereIs(db'.sql, Append(AccumulatedTexts, <<"unavailable", "=", "0">>))
       /\ include_unavailable_ =>
            /\ ~HasToken(db'.sql, "unavailable")
            /\ AccumulatedTexts = <<>> => ~HasToken(db'.sql, "WHERE")
            /\ AccumulatedTexts # <<>> => WhereIs(db'.sql, AccumulatedTexts)
    ]_vars

\* a builder without clauses, executed with include_unavailable false
C14_Witness ==
  /\ db.state = "executed"
  /\ where_clauses_ = <<>> /\ ~include_unavailable_
  /\ db.sql = <<"SELECT", "*", "FROM", "songs", "WHERE", "unavailable", "=", "0">>

----------------------------------------------------------------------------
(* C15 *)

\* C15 as stated: the statement Exec prepares has LIMIT n exactly when the
\* configured limit n is >= 0.
C15_AsStated ==
  [][PreparedStep => (HasToken(db'.sql, "LIMIT") <=> limit_ >= 0)]_vars

\* C15: the statement Exec prepares ends with LIMIT n exactly when the
\* configured limit n is not -1, and has no LIMIT otherwise.
C15_LimitUnlessMinusOne ==
  [][PreparedStep =>
       LET sql == db'.sql
       IN IF limit_ # -1
            THEN /\ Len(sql) >= 2
                 /\ SubSeq(sql, Len(sql) - 1, Len(sql)) = <<"LIMIT", LimitText(limit_)>>
                 /\ TokenAt(sql, "LIMIT") = {Len(sql) - 1}
            ELSE ~HasToken(sql, "LIMIT")
    ]_vars

\* statements prepared with limit 0 and with limit -2, both ending in LIMIT
C15_Witness ==
  /\ db.state = "executed"
  /\ limit_ \in {0, -2}
  /\ Len(db.sql) >= 2
  /\ db.sql[Len(db.sql) - 1] = "LIMIT" /\ db.sql[Len(db.sql)] = LimitText(limit_)

----------------------------------------------------------------------------
(* C16 *)

\* when preparation fails Exec returns false, binds nothing and runs nothing
PrepareFailureStops ==
  db'.state = "prepare_failed" =>
    /\ ~db'.ret
    /\ db'.bind_values = <<>>
    /\ db'.executions = db.executions

\* C16 as stated: preparation failure is the only error path of Exec: it
\* returns false without binding or executing, and in every other case Exec
\* does not return false.
C16_AsStated ==
  [][ExecStep =>
       /\ PrepareFailureStops
       /\ db'.state # "prepare_failed" => db'.ret
    ]_vars

\* C16: Exec returns false when preparation fails, without binding a value or
\* executing; otherwise it binds every accumulated value, executes the
\* statement once and returns the result of that execution, which is false
\* when the execution fails.
C16_PrepareOrExecFailure ==
  [][ExecStep =>
       /\ PrepareFailureStops
       /\ db'.state # "prepare_failed" =>
            /\ db'.bind_values = bound_values_
            /\ db'.executions = db.executions + 1
            /\ db'.ret <=> db'.state = "executed"
            /\ ~db'.ret <=> db'.state = "exec_failed"
    ]_vars

\* a preparation that failed on a builder holding bound values, after an
\* earlier Exec of the same builder had executed its statement
C16_Witness ==
  /\ db.state = "prepare_failed" /\ ~db.ret
  /\ bound_values_ # <<>> /\ db.bind_values = <<>>
  /\ db.executions = 1

----------------------------------------------------------------------------
(* C17 *)

\* C17 as stated: once Exec has been called on a builder, no later calls on it
\* render and execute a second query.
C17_AsStated == db.executions <= 1

IsPrefix(s, t) == Len(s) <= Len(t) /\ SubSeq(t, 1, Len(s)) = s

\* C17: nothing stops a second Exec on the same builder: every Exec whose
\* statement is prepared renders and executes a query; no call removes a clause
\* or a bound value, so each query holds, in order, every clause and bound
\* value accumulated since construction, those of an earlier query included.
C17_ReusedBuilderAccumulates ==
  [][/\ IsPrefix(where_clauses_, where_clauses_')
     /\ IsPrefix(bound_values_, bound_values_')
     /\ PreparedStep =>
          /\ db'.executions = db.executions + 1
          /\ WhereIs(db'.sql, Append(AccumulatedTexts, <<"unavailable", "=", "0">>))
          /\ db'.bind_values = bound_values_
          /\ IsPrefix(db.bind_values, db'.bind_values)
    ]_vars

\* a second executed query, holding a clause added after the first Exec
C17_Witness ==
  /\ db.state = "executed" /\ db.executions = 2
  /\ \E i \in 1..Len(where_clauses_) : where_clauses_[i].op = 2
  /\ \E i \in 1..Len(db.sql) : db.sql[i] = "+compilation_effective"

----------------------------------------------------------------------------
(* C18 *)

\* the requests issued for an id whose reply handler has not run yet
Waiting(id) == {reply \in replies_ : reply.id = id}

\* C18: for every Start(id, song) and every order of the replies, Finished(id)
\* is emitted at most once; with an empty artist it is emitted at once and no
\* request is issued; with an artist it is not emitted while a request issued
\* for the id waits for its handler, it is emitted once all replies have been
\* handled, and the latch counts exactly the waiting requests, so that it
\* does not reach zero before the last handler.
C18_FinishedOnceAfterAllReplies ==
  \A id \in BioIds :
    /\ finished[id] <= 1
    /\ ~started[id].called => finished[id] = 0 /\ Waiting(id) = {}
    /\ (started[id].called /\ started[id].artist = "") =>
         finished[id] = 1 /\ Waiting(id) = {}
    /\ (started[id].called /\ started[id].artist # "") =>
         /\ finished[id] = 1 <=> Waiting(id) = {}
         /\ latch[id] = Cardinality(Waiting(id))

\* Finished emitted for an id after its image-titles reply and two image
\* replies, while the requests of another id are still waiting
C18_Witness ==
  \E id, other \in BioIds :
    /\ started[id].called /\ started[id].artist # ""
    /\ finished[id] = 1 /\ image_ready[id] = 2
    /\ Waiting(other) # {} /\ finished[other] = 0

====
